---- MODULE Spec2Model ----
(***************************************************************************)
(* Model of the Grouper client: the authenticated transport of            *)
(* AbstractClient (token renewal and retry) and the high-level operations *)
(* of GrouperClient that build a request envelope, send it and normalise  *)
(* the response.                                                          *)
(*                                                                        *)
(* One logical call is executed step by step (pc); the recursion of the   *)
(* retry is an explicit stack of frames.  The server is the environment:  *)
(* every send is answered by a nondeterministically chosen response.      *)
(*                                                                        *)
(* The request schemas of models.py (validation and serialisation) and    *)
(* extract_username are pure functions: SchemaSpec draws their arguments  *)
(* from bounded sets and applies them.                                    *)
(***************************************************************************)
EXTENDS Integers, Sequences, FiniteSets, TLC

\* ------------------------------------------------------------------------
\* Bounds of the model
\* ------------------------------------------------------------------------
\* number of logical calls made on the client in one behaviour
MaxCalls == 2
\* largest retries argument a caller passes to a transport function
MaxRetries == 2

\* the longest string extract_username is given
MaxStrLen == 5

\* ------------------------------------------------------------------------
\* Program constants
\* ------------------------------------------------------------------------
\* default value of the retries parameter
DefaultRetries == 2
\* extract_username keeps a result only if it is longer than this
MinUsernameLen == 2

\* Python's None for refresh_token
None == "None"
\* Python's None for the token (tokens are numbered 1, 2, ... as they are minted)
NoToken == 0
\* the refresh_token GrouperClient.__init__ sets
NA == "NA"
\* the Authorization header is absent
NoAuth == -1
\* Python's None as a username (extract_username found nothing)
PyNone == <<"<None>">>

\* ------------------------------------------------------------------------
\* HTTP responses
\* ------------------------------------------------------------------------
\* final status codes the server answers with
Statuses == {200, 401, 403, 404, 500}
\* status recorded for a send that failed at the network level
NetFail == 0

\* Response.raise_for_status(): raises HTTPError for 4xx and 5xx
RaisesForStatus(status) == status >= 400 /\ status < 600

\* the statuses that lead to the renewal-retry path
AuthStatuses == {401, 403}

\* an item of a result list (a wsSubject, a group result, a member result)
Item(id, code, attrs) == [id |-> id, resultCode |-> code, attributeValues |-> attrs]

\* a decoded JSON document: its top-level key, the number of entries of its
\* results list, whether the list key read by the client is present, the
\* items of that list, and the send it answers
Doc(top, nres, has, items, of) ==
    [top |-> top, nres |-> nres, has |-> has, items |-> items, of |-> of]

NoDoc == Doc("<none>", 0, FALSE, <<>>, 0)

\* a response body: JSON or not, and the document it decodes to
Body(json, doc) == [json |-> json, doc |-> doc]

Response(status, body) == [status |-> status, body |-> body]

NoResponse == Response(NetFail, Body(FALSE, NoDoc))

\* ------------------------------------------------------------------------
\* Strings as sequences of characters (for extract_username)
\* ------------------------------------------------------------------------
\* str.find(c): 1-based position of the first occurrence, 0 if there is none
Find(s, c) ==
    IF \E i \in 1..Len(s) : s[i] = c
    THEN CHOOSE i \in 1..Len(s) : s[i] = c /\ \A j \in 1..(i - 1) : s[j] # c
    ELSE 0

\* c in s
Contains(s, c) == Find(s, c) # 0

\* variant: the slice starts at the "(" itself
Between_FromParen(s) == SubSeq(s, Find(s, "("), Find(s, ")") - 1)

\* s[s.find("(")+1 : s.find(")")]
Between(s) == SubSeq(s, Find(s, "(") + 1, Find(s, ")") - 1)

RECURSIVE extract_username(_)
extract_username(subject_attributes) ==
    IF subject_attributes = <<>> THEN PyNone
    ELSE LET s == Head(subject_attributes)
         IN  IF Contains(s, "(") /\ Contains(s, ")") /\ Len(Between(s)) > MinUsernameLen
             THEN Between(s)
             ELSE extract_username(Tail(subject_attributes))

\* ------------------------------------------------------------------------
\* Values a call returns, and its outcome
\* ------------------------------------------------------------------------
EmptyMap == [k \in {} |-> PyNone]
EmptyBoolMap == [k \in {} |-> FALSE]

Val(t, doc, map, bmap, list, b, n) ==
    [t |-> t, doc |-> doc, map |-> map, bmap |-> bmap, list |-> list, b |-> b, n |-> n]

\* None
VNone == Val("None", NoDoc, EmptyMap, EmptyBoolMap, <<>>, FALSE, 0)
\* a decoded JSON body
VDoc(d) == Val("doc", d, EmptyMap, EmptyBoolMap, <<>>, FALSE, 0)
\* {'status': n}
VStatus(n) == Val("status", NoDoc, EmptyMap, EmptyBoolMap, <<>>, FALSE, n)
\* a dict id -> username
VMap(m) == Val("map", NoDoc, m, EmptyBoolMap, <<>>, FALSE, 0)
\* a dict identifier -> bool
VBoolMap(m) == Val("boolmap", NoDoc, EmptyMap, m, <<>>, FALSE, 0)
\* dict.values() / dict.keys(), in insertion order
VList(l) == Val("list", NoDoc, EmptyMap, EmptyBoolMap, l, FALSE, 0)
VBool(b) == Val("bool", NoDoc, EmptyMap, EmptyBoolMap, <<>>, b, 0)

Outcome(kind, exc, status, val) ==
    [kind |-> kind, exc |-> exc, status |-> status, val |-> val]

NoOutcome == Outcome("none", "", 0, VNone)
Returned(v) == Outcome("return", "", 0, v)
Raised(exc, status) == Outcome("raise", exc, status, VNone)

\* ------------------------------------------------------------------------
\* State
\* ------------------------------------------------------------------------
VARIABLES
    token,          \* AbstractClient.token: NoToken or the number of the token held
    refresh_token,  \* AbstractClient.refresh_token: None or NA
    minted,         \* how many tokens renew_token has minted so far
    calls,          \* logical calls begun so far
    call,           \* the call in progress (or the last one): entry point and arguments
    pc,             \* position of the executing frame
    stack,          \* frames of the recursive transport function, innermost last
    payload,        \* the serialised request body
    sendLog,        \* requests sent during the call, with the response to each
    renewCount,     \* renew_token invocations during the call
    tokenAtStart,   \* token when the call began
    ret,            \* what the transport returned to the high-level operation
    outcome,        \* how the call ended
    prev,           \* the previous call and its outcome
    membership,     \* server: the subjects of the group
    groupPresent,   \* server: whether the group exists
    given,          \* schema layer: the arguments an operation is applied to
    step,           \* schema layer: the operations applied to them so far
    result          \* schema layer: what the last operation produced

clientVars == <<token, refresh_token, minted>>
serverVars == <<membership, groupPresent>>
logVars == <<sendLog, renewCount, tokenAtStart>>
schemaVars == <<given, step, result>>
vars == <<token, refresh_token, minted, calls, call, pc, stack, payload, sendLog,
          renewCount, tokenAtStart, ret, outcome, prev, membership, groupPresent,
          given, step, result>>

\* a frame of _send_get_request / _send_body / _send_delete_request:
\* its retries argument, the Authorization entry of its headers argument,
\* the Authorization entry of the headers it built, its response r, and
\* whether it has been through the retry branch
Frame(retries, headers) ==
    [retries |-> retries, headers |-> headers, built |-> NoAuth,
     r |-> NoResponse, retried |-> FALSE]

Top == stack[Len(stack)]
SetTop(f) == [stack EXCEPT ![Len(stack)] = f]

Call(op, fn, http_method, skip_auth, retries, group, members) ==
    [op |-> op, fn |-> fn, http_method |-> http_method, skip_auth |-> skip_auth,
     retries |-> retries, group |-> group, members |-> members]

NoCall == Call("none", "none", "", FALSE, 0, "", <<>>)

\* ------------------------------------------------------------------------
\* The server (environment)
\* ------------------------------------------------------------------------
\* the stem the client is configured with, and the group names callers use
Stem == "ORG:apps"
Groups == {"team-x"}

\* the keys (subject ids and subject identifiers) the directory resolves
KnownKeys == {"u1", "u2", "u3", "ann", "bob"}

\* the subject id a key resolves to
IdOf(k) ==
    CASE k = "ann" -> "u1"
      [] k = "bob" -> "u2"
      [] OTHER -> k

\* the attributeValues of a subject: descriptions such as "A (ann)"
Attrs(id) ==
    CASE id = "u1" -> << <<"A", " ", "(", "a", "n", "n", ")">> >>
      [] id = "u2" -> << <<"B">>, <<"(", "b", "o", "b", ")">> >>
      [] id = "u3" -> << <<"(", "c", ")">> >>
      [] OTHER -> <<>>

Subject(id) == Item(id, "SUCCESS", Attrs(id))

\* memberships the group can have on the server
MemberLists ==
    { <<>>,
      <<Subject("u1"), Subject("u2")>>,
      <<Subject("u3"), Item("u9", "SUBJECT_NOT_FOUND", <<>>)>> }

\* the states of the group on the server: absent, or present with its members
ServerStates == { <<m, TRUE>> : m \in MemberLists } \cup { << <<>>, FALSE >> }

\* lists of member ids callers pass to get_users_by_id ("" is an empty string)
MemberArgs ==
    { <<>>, <<"u1">>, <<"u1", "u2">>, <<"u1", "u9">>, <<"u1", "u1">>, <<"u1", "">> }

\* lists of member identifiers callers pass to add and remove members
MemberUidArgs == { <<"ann", "bob">>, <<"ann", "zed">>, <<"ann", "">> }

\* user ids callers pass to user_exists
UserArgs == {"ann", "zed", ""}

\* the wsSubjects the server answers a list of lookups with, one per lookup
ResolveAll(lookups) ==
    [i \in 1..Len(lookups) |->
        IF lookups[i] \in KnownKeys
        THEN Subject(IdOf(lookups[i]))
        ELSE Item(lookups[i], "SUBJECT_NOT_FOUND", <<>>)]

\* the per-member results of an add or remove, one per lookup
MemberResults(lookups) ==
    [i \in 1..Len(lookups) |->
        Item(lookups[i],
             IF lookups[i] \in KnownKeys THEN "SUCCESS" ELSE "SUBJECT_NOT_FOUND", <<>>)]

\* the JSON documents the server may answer a successful request of call c with
\* (of: the number of the send within the call)
ServerDocs(c, of) ==
    CASE c.op = "get_group_members" ->
            { Doc("WsGetMembersResults", IF groupPresent THEN 1 ELSE 0,
                  groupPresent /\ membership # <<>>,
                  IF groupPresent THEN membership ELSE <<>>, of) }
      [] c.op = "group_exists" ->
            IF groupPresent
            THEN { Doc("WsFindGroupsResults", 1, TRUE, <<Item(c.group, "SUCCESS", <<>>)>>, of) }
            ELSE { Doc("WsFindGroupsResults", 1, has, <<>>, of) : has \in BOOLEAN }
      [] c.op = "add_members_to_group" ->
            { Doc("WsAddMemberResults", 1, TRUE, MemberResults(c.members), of) }
      [] c.op = "remove_members_from_group" ->
            { Doc("WsDeleteMemberResults", 1, TRUE, MemberResults(c.members), of) }
      [] c.op \in {"get_users_by_id", "user_exists"} ->
            { Doc("WsGetSubjectsResults", 1, TRUE, ResolveAll(c.members), of) }
      [] OTHER -> { Doc("data", 1, TRUE, <<>>, of) }

\* the JSON document of an error response
ErrDoc(of) == Doc("error", 0, FALSE, <<>>, of)

\* the responses the server may give to send number `of` of call c
Responses(c, of) ==
    { Response(st, Body(TRUE, d)) :
        st \in {x \in Statuses : ~RaisesForStatus(x)}, d \in ServerDocs(c, of) }
    \cup { Response(st, Body(TRUE, ErrDoc(of))) : st \in {x \in Statuses : RaisesForStatus(x)} }
    \cup { Response(st, Body(FALSE, NoDoc)) : st \in Statuses }

\* ------------------------------------------------------------------------
\* Schema layer: request envelopes
\* ------------------------------------------------------------------------
\* variant: the boolean fields are serialised as JSON booleans are spelt
SerializeBool_Spelt(value) == IF value THEN "true" ELSE "false"

\* field_serializer of the boolean fields: 'T' if value else 'F'
SerializeBool(value) == IF value THEN "T" ELSE "F"

\* GrouperClient.get_qualified_groupname
get_qualified_groupname(group_name) == Stem \o ":" \o group_name

\* SubjectLookup.check_fields: one of the two fields must be truthy
\* (key is the field the caller supplied, value its string)
SubjectLookupValid(value) == value # ""

\* a serialised SubjectLookup: the one field that was set
SubjectLookup(key, value) == [key |-> key, value |-> value]

\* a serialised envelope (model_dump(exclude_unset=True)): top-level key,
\* group name, subject lookups and the boolean fields that were set
Payload(envelope, groupName, lookups, flags) ==
    [envelope |-> envelope, groupName |-> groupName, lookups |-> lookups, flags |-> flags]

NoPayload == Payload("", "", <<>>, <<>>)

Flag(name, value) == [name |-> name, value |-> SerializeBool(value)]

Lookups(key, members) == [i \in 1..Len(members) |-> SubjectLookup(key, members[i])]

\* does construction of the envelope of call c pass validation
EnvelopeValid(c) ==
    IF c.op \in {"add_members_to_group", "remove_members_from_group",
                 "get_users_by_id", "user_exists"}
    THEN \A i \in 1..Len(c.members) : SubjectLookupValid(c.members[i])
    ELSE TRUE

\* the body the high-level operation of call c sends
BuildPayload(c) ==
    CASE c.op = "get_group_members" ->
            Payload("WsRestGetMembersRequest", get_qualified_groupname(c.group), <<>>,
                    <<Flag("includeSubjectDetail", TRUE)>>)
      [] c.op = "group_exists" ->
            Payload("WsRestFindGroupsRequest", get_qualified_groupname(c.group), <<>>, <<>>)
      [] c.op = "add_members_to_group" ->
            Payload("WsRestAddMemberRequest", get_qualified_groupname(c.group),
                    Lookups("subjectIdentifier", c.members),
                    <<Flag("replaceAllExisting", FALSE)>>)
      [] c.op = "remove_members_from_group" ->
            Payload("WsRestDeleteMemberRequest", get_qualified_groupname(c.group),
                    Lookups("subjectIdentifier", c.members), <<>>)
      [] c.op = "get_users_by_id" ->
            Payload("WsRestGetSubjectsRequest", "", Lookups("subjectId", c.members),
                    <<Flag("includeSubjectDetail", TRUE)>>)
      [] c.op = "user_exists" ->
            Payload("WsRestGetSubjectsRequest", "", Lookups("subjectIdentifier", c.members),
                    <<Flag("includeSubjectDetail", TRUE)>>)
      [] OTHER -> NoPayload

\* ------------------------------------------------------------------------
\* Response normalisation of the high-level operations
\* ------------------------------------------------------------------------
\* [i for i in resp if i['resultCode'] == 'SUCCESS']
SuccessItems(items) == SelectSeq(items, LAMBDA i : i.resultCode = "SUCCESS")

\* position of the last item with key k
LastIndex(items, k) ==
    CHOOSE i \in 1..Len(items) :
        items[i].id = k /\ \A j \in (i + 1)..Len(items) : items[j].id # k

\* {i['id']: extract_username(i['attributeValues']) for i in resp
\*  if i['resultCode'] == 'SUCCESS'}: a later item overwrites an earlier one
DictOf(items) ==
    LET s == SuccessItems(items)
    IN  [k \in {s[i].id : i \in 1..Len(s)} |->
            extract_username(s[LastIndex(s, k)].attributeValues)]

\* {i['wsSubject']['identifierLookup']: i['wsSubject']['resultCode'] == 'SUCCESS'
\*  for i in resp}
BoolDictOf(items) ==
    [k \in {items[i].id : i \in 1..Len(items)} |->
        items[LastIndex(items, k)].resultCode = "SUCCESS"]

\* the keys of a dict built from items, in insertion order
RECURSIVE KeysInOrder(_)
KeysInOrder(items) ==
    IF items = <<>> THEN <<>>
    ELSE LET rest == KeysInOrder(SubSeq(items, 1, Len(items) - 1))
             k == items[Len(items)].id
         IN  IF \E i \in 1..Len(rest) : rest[i] = k THEN rest ELSE Append(rest, k)

\* dict.values()
ValuesOf(items) ==
    LET keys == KeysInOrder(SuccessItems(items))
        d == DictOf(items)
    IN  [i \in 1..Len(keys) |-> d[keys[i]]]

\* GrouperClient.__handle_get_group_members_response
handle_get_group_members_response(d) ==
    IF d.top # "WsGetMembersResults" THEN Raised("KeyError", 0)
    ELSE IF d.nres = 0 \/ ~d.has THEN Returned(VMap(EmptyMap))
    ELSE Returned(VMap(DictOf(d.items)))

\* GrouperClient.group_exists (with get_group): a KeyError gives False
group_exists(d) ==
    IF d.top # "WsFindGroupsResults" \/ ~d.has THEN Returned(VBool(FALSE))
    ELSE Returned(VBool(Len(d.items) > 0))

\* GrouperClient.__handle_add_members_response
handle_add_members_response(d) ==
    IF d.top # "WsAddMemberResults" \/ ~d.has THEN Raised("ValueError", 0)
    ELSE Returned(VBoolMap(BoolDictOf(d.items)))

\* GrouperClient.__handle_remove_members_response
handle_remove_members_response(d) ==
    IF d.top # "WsDeleteMemberResults" \/ ~d.has THEN Raised("KeyError", 0)
    ELSE Returned(VBoolMap(BoolDictOf(d.items)))

\* GrouperClient.__extract_and_validate_users_found
extract_and_validate_users_found(items, member_ids) ==
    IF Cardinality(DOMAIN DictOf(items)) # Len(member_ids)
    THEN Raised("ValueError", 0)
    ELSE Returned(VList(ValuesOf(items)))

\* GrouperClient.get_users_by_id, after the transport returned d
get_users_by_id(d, member_ids) ==
    IF d.top # "WsGetSubjectsResults" \/ ~d.has THEN Raised("KeyError", 0)
    ELSE extract_and_validate_users_found(d.items, member_ids)

\* GrouperClient.get_users_by_username, after the transport returned d:
\* the length check reads member_ids, a name the function does not define
get_users_by_username(d, member_uids) ==
    IF d.top # "WsGetSubjectsResults" \/ ~d.has THEN Raised("KeyError", 0)
    ELSE Raised("NameError", 0)

\* GrouperClient.user_exists, applied to how get_users_by_username ended
user_exists(r) ==
    IF r.kind = "raise" THEN r
    ELSE IF Len(r.val.list) = 0 THEN Returned(VBool(FALSE))
    ELSE IF Len(r.val.list) > 1 THEN Raised("ValueError", 0)
    ELSE Returned(VBool(TRUE))

\* what the high-level operation of call c makes of the transport's result d
NormalizeResult(c, d) ==
    CASE c.op = "get_group_members" -> handle_get_group_members_response(d)
      [] c.op = "group_exists" -> group_exists(d)
      [] c.op = "add_members_to_group" -> handle_add_members_response(d)
      [] c.op = "remove_members_from_group" -> handle_remove_members_response(d)
      [] c.op = "get_users_by_id" -> get_users_by_id(d, c.members)
      [] c.op = "user_exists" -> user_exists(get_users_by_username(d, c.members))
      [] OTHER -> Returned(VDoc(d))

\* ------------------------------------------------------------------------
\* Calls
\* ------------------------------------------------------------------------
\* the http_method arguments callers pass to _send_body directly (HEAD is not
\* valid; POST, PATCH and DELETE come from the wrappers)
HttpMethods == {"PUT", "HEAD"}
ValidMethods == {"POST", "PUT", "PATCH", "DELETE"}

\* direct calls of the transport functions; _send_put_request and
\* _send_patch_request both pass 'PATCH', _send_delete_request with a body
\* goes through _send_body with the default retries
TransportCalls ==
    { Call("_send_get_request", "get", "GET", FALSE, rt, "", <<>>) : rt \in 0..MaxRetries }
    \cup { Call("_send_post_request", "body", "POST", sk, DefaultRetries, "", <<>>) :
            sk \in BOOLEAN }
    \cup { Call("_send_put_request", "body", "PATCH", FALSE, DefaultRetries, "", <<>>) }
    \cup { Call("_send_patch_request", "body", "PATCH", FALSE, DefaultRetries, "", <<>>) }
    \cup { Call("_send_body", "body", m, FALSE, rt, "", <<>>) :
            m \in HttpMethods, rt \in 0..MaxRetries }
    \cup { Call("_send_delete_request", "delete", "DELETE", FALSE, rt, "", <<>>) :
            rt \in 0..MaxRetries }
    \cup { Call("_send_delete_request", "body", "DELETE", FALSE, DefaultRetries, "", <<>>) }

\* calls of the high-level operations of GrouperClient
OperationCalls ==
    { Call(op, "body", "POST", FALSE, DefaultRetries, g, <<>>) :
        op \in {"get_group_members", "group_exists"}, g \in Groups }
    \cup { Call("add_members_to_group", "body", "POST", FALSE, DefaultRetries, g, m) :
            g \in Groups, m \in MemberUidArgs }
    \cup { Call("remove_members_from_group", "body", "DELETE", FALSE, DefaultRetries, g, m) :
            g \in Groups, m \in MemberUidArgs }
    \cup { Call("get_users_by_id", "body", "POST", FALSE, DefaultRetries, "", m) :
            m \in MemberArgs }
    \cup { Call("user_exists", "body", "POST", FALSE, DefaultRetries, "", <<u>>) :
            u \in UserArgs }

IsTransportCall(c) == c \in TransportCalls

\* what is kept of a call once the next one begins: a get_group_members call
\* that returned, until the server's data changes
Prev(c, o) == [call |-> c, outcome |-> o]

NoPrev == Prev(NoCall, NoOutcome)

Remember(c, o) ==
    IF c.op = "get_group_members" /\ o.kind = "return" THEN Prev(c, o) ELSE NoPrev

\* the exception leaves every frame: the call ends
Raise(exc, status) ==
    /\ outcome' = Raised(exc, status)
    /\ pc' = "idle"
    /\ stack' = <<>>

Begin(c) ==
    /\ pc = "idle"
    /\ calls < MaxCalls
    /\ calls' = calls + 1
    /\ call' = c
    /\ prev' = Remember(call, outcome)
    /\ sendLog' = <<>>
    /\ renewCount' = 0
    /\ tokenAtStart' = token
    /\ ret' = VNone
    /\ outcome' = NoOutcome
    /\ UNCHANGED <<schemaVars, clientVars, serverVars>>

\* a caller calls one of the transport functions
InvokeTransport ==
    \E c \in TransportCalls :
        /\ Begin(c)
        /\ stack' = <<Frame(c.retries, NoAuth)>>
        /\ payload' = NoPayload
        /\ pc' = "ensure"

\* a caller calls a high-level operation of a GrouperClient
InvokeOperation ==
    \E c \in OperationCalls :
        /\ refresh_token = NA
        /\ Begin(c)
        /\ stack' = <<>>
        /\ payload' = NoPayload
        /\ pc' = "build"

\* variant: the envelope is not validated before the request is sent
BuildNext_NoValidation(c) == "ensure"

\* where the operation goes after constructing its envelope
BuildNext(c) == IF EnvelopeValid(c) THEN "ensure" ELSE "raise"

\* the operation constructs and serialises its request envelope, then calls
\* _send_post_request / _send_delete_request
Build ==
    /\ pc = "build"
    /\ IF BuildNext(call) = "raise"
       THEN /\ Raise("ValidationError", 0)
            /\ UNCHANGED payload
       ELSE /\ payload' = BuildPayload(call)
            /\ stack' = <<Frame(call.retries, NoAuth)>>
            /\ pc' = BuildNext(call)
            /\ UNCHANGED outcome
    /\ UNCHANGED <<schemaVars, clientVars, serverVars, logVars, calls, call, ret, prev>>

\* variant: the ensure-token step is left out
NeedsToken_Skipped == FALSE

\* the condition of the ensure-token step
NeedsToken ==
    /\ call.fn = "body" => ~call.skip_auth
    /\ token = NoToken
    /\ refresh_token # None

AfterEnsure == IF call.fn = "body" THEN "check_method" ELSE "headers"

\* if self.token is None and self.refresh_token is not None: renew
EnsureToken ==
    /\ pc = "ensure"
    /\ pc' = IF NeedsToken THEN "renew_ensure" ELSE AfterEnsure
    /\ UNCHANGED <<schemaVars, clientVars, serverVars, logVars, calls, call, stack, payload, ret,
                   outcome, prev>>

\* variant: renew_token drops the token held before it reads the key
renew_token_ClearsFirst ==
    /\ pc \in {"renew_ensure", "renew_retry"}
    /\ renewCount' = renewCount + 1
    /\ \E ok \in BOOLEAN :
        IF ok
        THEN /\ minted' = minted + 1
             /\ token' = minted + 1
             /\ pc' = IF pc = "renew_ensure" THEN AfterEnsure ELSE "recurse"
             /\ UNCHANGED <<stack, outcome>>
        ELSE /\ Raise("IOError", 0)
             /\ token' = NoToken
             /\ UNCHANGED minted
    /\ UNCHANGED <<schemaVars, refresh_token, serverVars, sendLog, tokenAtStart, calls,
                   call, payload, ret, prev>>

\* GrouperClient.renew_token: mints a fresh token, or fails reading the key
renew_token ==
    /\ pc \in {"renew_ensure", "renew_retry"}
    /\ renewCount' = renewCount + 1
    /\ \E ok \in BOOLEAN :
        IF ok
        THEN /\ minted' = minted + 1
             /\ token' = minted + 1
             /\ pc' = IF pc = "renew_ensure" THEN AfterEnsure ELSE "recurse"
             /\ UNCHANGED <<stack, outcome>>
        ELSE /\ Raise("IOError", 0)
             /\ UNCHANGED <<token, minted>>
    /\ UNCHANGED <<schemaVars, refresh_token, serverVars, sendLog, tokenAtStart, calls,
                   call, payload, ret, prev>>

\* if http_method not in ['POST', 'PUT', 'PATCH', 'DELETE']: raise ValueError
CheckMethod ==
    /\ pc = "check_method"
    /\ IF call.http_method \in ValidMethods
       THEN pc' = "headers" /\ UNCHANGED <<stack, outcome>>
       ELSE Raise("ValueError", 0)
    /\ UNCHANGED <<schemaVars, clientVars, serverVars, logVars, calls, call, payload, ret, prev>>

\* AbstractClient._get_headers: the Authorization entry of the headers built;
\* the additional headers (the frame's headers argument) are applied last
get_headers(additional, skip_auth) ==
    LET own == IF skip_auth THEN NoAuth ELSE token
    IN  IF additional # NoAuth THEN additional ELSE own

GetHeaders ==
    /\ pc = "headers"
    /\ stack' = SetTop([Top EXCEPT !.built = get_headers(Top.headers, call.skip_auth)])
    /\ pc' = "send"
    /\ UNCHANGED <<schemaVars, clientVars, serverVars, logVars, calls, call, payload, ret, outcome,
                   prev>>

\* a request sent: the Authorization header, the token held, the response
Sent(auth, tok, r) == [auth |-> auth, tok |-> tok, r |-> r]

\* requests.get / requests.request / requests.delete: the server answers,
\* or the request fails at the network level
Send ==
    /\ pc = "send"
    /\ \/ \E r \in Responses(call, Len(sendLog) + 1) :
            /\ sendLog' = Append(sendLog, Sent(Top.built, token, r))
            /\ stack' = SetTop([Top EXCEPT !.r = r])
            /\ pc' = "classify"
            /\ UNCHANGED outcome
       \/ /\ sendLog' = Append(sendLog, Sent(Top.built, token, NoResponse))
          /\ Raise("ConnectionError", 0)
    /\ UNCHANGED <<schemaVars, clientVars, serverVars, renewCount, tokenAtStart, calls,
                   call, payload, ret, prev>>

\* variant: the retry budget is tested with >= instead of >
ShouldRetry_OneMore(retries, status) ==
    refresh_token # None /\ retries >= 0 /\ status \in AuthStatuses

\* variant: every HTTP error is retried, not only 401 and 403
ShouldRetry_AnyError(retries, status) ==
    refresh_token # None /\ retries > 0 /\ RaisesForStatus(status)

\* the condition of the retry branch of the except clause
ShouldRetry(retries, status) ==
    refresh_token # None /\ retries > 0 /\ status \in AuthStatuses

\* r.raise_for_status() and the except clause
Classify ==
    /\ pc = "classify"
    /\ IF ~RaisesForStatus(Top.r.status)
       THEN pc' = "return" /\ UNCHANGED <<stack, outcome>>
       ELSE IF ShouldRetry(Top.retries, Top.r.status)
       THEN pc' = "renew_retry" /\ UNCHANGED <<stack, outcome>>
       ELSE Raise("HTTPError", Top.r.status)
    /\ UNCHANGED <<schemaVars, clientVars, serverVars, logVars, calls, call, payload, ret, prev>>

\* the headers argument of the recursive call: _send_body passes the headers
\* it built, the other two functions build theirs afresh
RetryHeaders(f) == IF call.fn = "body" THEN f.built ELSE NoAuth

\* the recursive call, with one retry fewer
Recurse ==
    /\ pc = "recurse"
    /\ stack' = Append(SetTop([Top EXCEPT !.retried = TRUE]),
                       Frame(Top.retries - 1, RetryHeaders(Top)))
    /\ pc' = "ensure"
    /\ UNCHANGED <<schemaVars, clientVars, serverVars, logVars, calls, call, payload, ret, outcome,
                   prev>>

\* what frame f returns: r.json() of its own response; in _send_delete_request
\* the status mapping inside the try, and nothing after the retry branch
ReturnValue(f) ==
    IF call.fn = "delete"
    THEN IF f.retried THEN Returned(VNone) ELSE Returned(VStatus(f.r.status))
    ELSE IF f.r.body.json THEN Returned(VDoc(f.r.body.doc))
    ELSE Raised("JSONDecodeError", 0)

\* the frame returns: to the frame that made the recursive call (which drops
\* the value), to the high-level operation, or to the caller
Return ==
    /\ pc = "return"
    /\ LET v == ReturnValue(Top)
       IN  IF v.kind = "raise"
           THEN Raise(v.exc, v.status) /\ UNCHANGED ret
           ELSE IF Len(stack) > 1
           THEN /\ stack' = SubSeq(stack, 1, Len(stack) - 1)
                /\ pc' = "return"
                /\ UNCHANGED <<ret, outcome>>
           ELSE IF IsTransportCall(call)
           THEN /\ stack' = <<>>
                /\ pc' = "idle"
                /\ outcome' = v
                /\ UNCHANGED ret
           ELSE /\ stack' = <<>>
                /\ pc' = "normalize"
                /\ ret' = v.val
                /\ UNCHANGED outcome
    /\ UNCHANGED <<schemaVars, clientVars, serverVars, logVars, calls, call, payload, prev>>

\* the high-level operation normalises the response
Normalize ==
    /\ pc = "normalize"
    /\ outcome' = NormalizeResult(call, ret.doc)
    /\ pc' = "idle"
    /\ UNCHANGED <<schemaVars, clientVars, serverVars, logVars, calls, call, stack, payload, ret, prev>>

\* between two calls the server's data changes; what was recorded of the
\* finished call is dropped
ServerChange ==
    /\ pc = "idle"
    /\ calls < MaxCalls
    /\ \E sv \in ServerStates :
        /\ sv # <<membership, groupPresent>>
        /\ membership' = sv[1]
        /\ groupPresent' = sv[2]
    /\ prev' = NoPrev
    /\ call' = NoCall
    /\ outcome' = NoOutcome
    /\ payload' = NoPayload
    /\ sendLog' = <<>>
    /\ renewCount' = 0
    /\ tokenAtStart' = token
    /\ ret' = VNone
    /\ UNCHANGED <<schemaVars, clientVars, calls, pc, stack>>

\* ------------------------------------------------------------------------
\* Schema layer in full: the declared structures of models.py, their
\* validation and their serialisation
\* ------------------------------------------------------------------------
\* Python values handed to and produced by the schemas.  A string is a
\* sequence of characters; a mapping (keyword arguments, dict, validated
\* model) is a function from field names to values.
PNone == [t |-> "none"]
PStr(s) == [t |-> "str", s |-> s]
PBool(b) == [t |-> "bool", b |-> b]
PInt(n) == [t |-> "int", n |-> n]
PObj(kw) == [t |-> "obj", kw |-> kw]
PList(l) == [t |-> "list", l |-> l]

\* the empty mapping
NoFields == <<>>

\* bool(value) of a field value: None and "" are falsy
Truthy(v) ==
    CASE v.t = "none" -> FALSE
      [] v.t = "str" -> v.s # <<>>
      [] v.t = "bool" -> v.b
      [] v.t = "int" -> v.n # 0
      [] OTHER -> TRUE

\* the whitespace character
Space == " "

\* str.strip(): leading and trailing whitespace removed
RECURSIVE Strip(_)
Strip(s) ==
    IF s = <<>> THEN s
    ELSE IF Head(s) = Space THEN Strip(Tail(s))
    ELSE IF s[Len(s)] = Space THEN Strip(SubSeq(s, 1, Len(s) - 1))
    ELSE s

\* model_config of a structure: what it does with undeclared fields, and
\* whether strings are stripped
Config(extra, str_strip_whitespace) ==
    [extra |-> extra, str_strip_whitespace |-> str_strip_whitespace]

\* ConfigDict(extra='forbid', str_strip_whitespace=True)
ClosedConfig == Config("forbid", TRUE)

\* pydantic's configuration of a model that declares no model_config
DefaultConfig == Config("ignore", FALSE)

\* the BaseModel classes and the TypedDict classes of models.py
Models ==
    { "WsQueryFilter", "WsRestFindGroupsRequest", "FindGroupsRequest",
      "SubjectLookup", "WsRestGetGroupsRequest", "GetGroupsForUserRequest",
      "WsRestGetMembersRequest", "GetGroupMembersRequest",
      "WsRestAddMemberRequest", "AddMembersRequest",
      "WsRestDeleteMemberRequest", "RemoveMembersRequest",
      "WsRestGetSubjectsRequest", "GetUsersRequest",
      "WsRestGroupSaveRequest", "SaveGroupRequest",
      "WsRestGroupDeleteRequest", "DeleteGroupRequest" }

TypedDicts == { "WsGroupLookup", "WsGroup", "WsGroupToSave" }

\* SubjectLookup is the one model without a model_config
OwnConfig(struct) == IF struct = "SubjectLookup" THEN DefaultConfig ELSE ClosedConfig

\* a TypedDict is validated under the configuration of the model it is in
EffectiveConfig(struct, enclosing) ==
    IF struct \in TypedDicts THEN enclosing ELSE OwnConfig(struct)

\* a declared field: its type (of names the nested structure or the element
\* structure of a list), whether it accepts None, whether it has no default
Field(kind, of, optional, required) ==
    [kind |-> kind, of |-> of, optional |-> optional, required |-> required]

Opt(kind) == Field(kind, "", TRUE, FALSE)
Req(kind) == Field(kind, "", FALSE, TRUE)
Nested(of) == Field("struct", of, FALSE, TRUE)
ListOf(of) == Field("list", of, FALSE, TRUE)

\* the fields each structure declares
Declared(struct) ==
    CASE struct = "WsQueryFilter" ->
            [typeOfGroups |-> Field("literal", "", FALSE, FALSE),
             pageSize |-> Opt("posint"), pageNumber |-> Opt("posint"),
             sortString |-> Opt("str"), ascending |-> Opt("bool"),
             queryFilterType |-> Req("literal"), stemName |-> Opt("str"),
             stemNameScope |-> Opt("literal"), enabled |-> Opt("bool"),
             groupName |-> Opt("str")]
      [] struct = "WsRestFindGroupsRequest" ->
            [wsQueryFilter |-> Nested("WsQueryFilter"), includeGroupDetail |-> Opt("bool")]
      [] struct = "FindGroupsRequest" ->
            [WsRestFindGroupsRequest |-> Nested("WsRestFindGroupsRequest")]
      [] struct = "SubjectLookup" ->
            [subjectIdentifier |-> Opt("str"), subjectId |-> Opt("str")]
      [] struct = "WsRestGetGroupsRequest" ->
            [subjectLookups |-> ListOf("SubjectLookup"),
             subjectAttributeNames |-> Req("strlist")]
      [] struct = "GetGroupsForUserRequest" ->
            [WsRestGetGroupsRequest |-> Nested("WsRestGetGroupsRequest")]
      [] struct = "WsGroupLookup" ->
            [groupName |-> Req("str")]
      [] struct = "WsRestGetMembersRequest" ->
            [includeSubjectDetail |-> Req("bool"), wsGroupLookups |-> ListOf("WsGroupLookup")]
      [] struct = "GetGroupMembersRequest" ->
            [WsRestGetMembersRequest |-> Nested("WsRestGetMembersRequest")]
      [] struct = "WsRestAddMemberRequest" ->
            [wsGroupLookup |-> Nested("WsGroupLookup"),
             subjectLookups |-> ListOf("SubjectLookup"),
             replaceAllExisting |-> Req("bool")]
      [] struct = "AddMembersRequest" ->
            [WsRestAddMemberRequest |-> Nested("WsRestAddMemberRequest")]
      [] struct = "WsRestDeleteMemberRequest" ->
            [wsGroupLookup |-> Nested("WsGroupLookup"),
             subjectLookups |-> ListOf("SubjectLookup")]
      [] struct = "RemoveMembersRequest" ->
            [WsRestDeleteMemberRequest |-> Nested("WsRestDeleteMemberRequest")]
      [] struct = "WsRestGetSubjectsRequest" ->
            [includeSubjectDetail |-> Req("bool"), wsSubjectLookups |-> ListOf("SubjectLookup")]
      [] struct = "GetUsersRequest" ->
            [WsRestGetSubjectsRequest |-> Nested("WsRestGetSubjectsRequest")]
      [] struct = "WsGroup" ->
            [extension |-> Req("str"), name |-> Req("str")]
      [] struct = "WsGroupToSave" ->
            [wsGroupLookup |-> Nested("WsGroupLookup"), wsGroup |-> Nested("WsGroup")]
      [] struct = "WsRestGroupSaveRequest" ->
            [wsGroupToSaves |-> ListOf("WsGroupToSave")]
      [] struct = "SaveGroupRequest" ->
            [WsRestGroupSaveRequest |-> Nested("WsRestGroupSaveRequest")]
      [] struct = "WsRestGroupDeleteRequest" ->
            [wsGroupLookups |-> ListOf("WsGroupLookup")]
      [] struct = "DeleteGroupRequest" ->
            [WsRestGroupDeleteRequest |-> Nested("WsRestGroupDeleteRequest")]

\* the values a Literal field admits (each literal is one unit)
Literals(struct, f) ==
    CASE f = "typeOfGroups" -> { <<"group">> }
      [] f = "queryFilterType" -> { <<"FIND_BY_STEM_NAME">>, <<"FIND_BY_GROUP_NAME_EXACT">> }
      [] f = "stemNameScope" -> { <<"ALL_IN_SUBTREE">> }
      [] OTHER -> {}

\* the fields a field_serializer is declared for
HasSerializer(struct, f) ==
    \/ struct = "WsQueryFilter" /\ f \in {"enabled", "ascending"}
    \/ struct = "WsRestFindGroupsRequest" /\ f = "includeGroupDetail"
    \/ struct = "WsRestGetMembersRequest" /\ f = "includeSubjectDetail"
    \/ struct = "WsRestAddMemberRequest" /\ f = "replaceAllExisting"
    \/ struct = "WsRestGetSubjectsRequest" /\ f = "includeSubjectDetail"

\* variant: check_fields asks for both fields
check_fields_Both(obj) ==
    /\ "subjectIdentifier" \in DOMAIN obj /\ Truthy(obj["subjectIdentifier"])
    /\ "subjectId" \in DOMAIN obj /\ Truthy(obj["subjectId"])

\* SubjectLookup.check_fields: self.subjectIdentifier or self.subjectId
\* (a field that was not set has its default, None)
check_fields(obj) ==
    \/ "subjectIdentifier" \in DOMAIN obj /\ Truthy(obj["subjectIdentifier"])
    \/ "subjectId" \in DOMAIN obj /\ Truthy(obj["subjectId"])

\* the model validators that run after the fields are validated
AfterValidators(struct, obj) == struct = "SubjectLookup" => check_fields(obj)

\* the outcome of validation: the validated fields that were set, or an error
Validated(obj) == [ok |-> TRUE, err |-> "", obj |-> obj]
ValidationError(err) == [ok |-> FALSE, err |-> err, obj |-> NoFields]

\* the outcome of validating one value
Value(v) == [ok |-> TRUE, v |-> v]
BadValue == [ok |-> FALSE, v |-> PNone]

\* validation of a mapping against a structure, and of a value against the
\* type of a field, under the configuration in force
RECURSIVE ValidateStruct(_, _, _), ValidateValue(_, _, _, _)

ValidateValue(struct, f, v, config) ==
    LET ty == Declared(struct)[f]
    IN  IF v.t = "none" THEN (IF ty.optional THEN Value(v) ELSE BadValue)
        ELSE CASE ty.kind = "str" ->
                    IF v.t = "str"
                    THEN Value(PStr(IF config.str_strip_whitespace THEN Strip(v.s) ELSE v.s))
                    ELSE BadValue
               [] ty.kind = "bool" -> IF v.t = "bool" THEN Value(v) ELSE BadValue
               [] ty.kind = "posint" -> IF v.t = "int" /\ v.n > 0 THEN Value(v) ELSE BadValue
               [] ty.kind = "literal" ->
                    IF v.t = "str" /\ v.s \in Literals(struct, f) THEN Value(v) ELSE BadValue
               [] ty.kind = "strlist" ->
                    IF v.t = "list" /\ \A i \in 1..Len(v.l) : v.l[i].t = "str"
                    THEN Value(PList([i \in 1..Len(v.l) |->
                            PStr(IF config.str_strip_whitespace
                                 THEN Strip(v.l[i].s) ELSE v.l[i].s)]))
                    ELSE BadValue
               [] ty.kind = "struct" ->
                    IF v.t = "obj"
                    THEN LET r == ValidateStruct(ty.of, v.kw, config)
                         IN  IF r.ok THEN Value(PObj(r.obj)) ELSE BadValue
                    ELSE BadValue
               [] ty.kind = "list" ->
                    IF v.t = "list" /\ \A i \in 1..Len(v.l) : v.l[i].t = "obj"
                    THEN LET rs == [i \in 1..Len(v.l) |->
                                        ValidateStruct(ty.of, v.l[i].kw, config)]
                         IN  IF \A i \in 1..Len(rs) : rs[i].ok
                             THEN Value(PList([i \in 1..Len(rs) |-> PObj(rs[i].obj)]))
                             ELSE BadValue
                    ELSE BadValue

ValidateStruct(struct, kw, enclosing) ==
    LET config == EffectiveConfig(struct, enclosing)
        decl == Declared(struct)
        known == DOMAIN kw \cap DOMAIN decl
        vals == [f \in known |-> ValidateValue(struct, f, kw[f], config)]
        obj == [f \in known |-> vals[f].v]
    IN  IF config.extra = "forbid" /\ DOMAIN kw \ DOMAIN decl # {}
        THEN ValidationError("extra_forbidden")
        ELSE IF \E f \in DOMAIN decl : decl[f].required /\ f \notin DOMAIN kw
        THEN ValidationError("missing")
        ELSE IF \E f \in known : ~vals[f].ok
        THEN ValidationError("invalid")
        ELSE IF ~AfterValidators(struct, obj)
        THEN ValidationError("value_error")
        ELSE Validated(obj)

\* Model(**kw): construction of a model from keyword arguments
Construct(struct, kw) == ValidateStruct(struct, kw, OwnConfig(struct))

\* model_dump(exclude_unset=True): the fields that were set, each through its
\* serializer if it has one, nested structures likewise
RECURSIVE DumpStruct(_, _), DumpValue(_, _, _)

DumpValue(struct, f, v) ==
    LET ty == Declared(struct)[f]
    IN  IF HasSerializer(struct, f) THEN PStr(<<SerializeBool(Truthy(v))>>)
        ELSE IF v.t = "obj" THEN PObj(DumpStruct(ty.of, v.kw))
        ELSE IF v.t = "list" /\ ty.kind = "list"
        THEN PList([i \in 1..Len(v.l) |-> PObj(DumpStruct(ty.of, v.l[i].kw))])
        ELSE v

DumpStruct(struct, obj) == [f \in DOMAIN obj |-> DumpValue(struct, f, obj[f])]

\* variant: the group name is sent without the stem
QualifiedName_NoStem(stem, group_name) == group_name

\* GrouperClient.get_qualified_groupname for a client configured with stem
QualifiedName(stem, group_name) == stem \o <<":">> \o group_name

\* the keyword arguments add_members_to_group constructs its envelope from
add_members_request(stem, group_name, member_uids) ==
    [WsRestAddMemberRequest |-> PObj(
        [wsGroupLookup |-> PObj([groupName |-> PStr(QualifiedName(stem, group_name))]),
         subjectLookups |-> PList([i \in 1..Len(member_uids) |->
                                    PObj([subjectIdentifier |-> PStr(member_uids[i])])]),
         replaceAllExisting |-> PBool(FALSE)])]

\* payload.model_dump(exclude_unset=True) of add_members_to_group, or the
\* validation error its construction raises
add_members_body(stem, group_name, member_uids) ==
    LET r == Construct("AddMembersRequest", add_members_request(stem, group_name, member_uids))
    IN  IF r.ok THEN Validated(DumpStruct("AddMembersRequest", r.obj)) ELSE r

\* an argument of extract_username: None, or a list of strings
Attributes(is_none, list) == [is_none |-> is_none, list |-> list]

\* extract_username with its None check
extract_username_arg(arg) ==
    IF arg.is_none THEN PyNone ELSE extract_username(arg.list)

\* ------------------------------------------------------------------------
\* Schema layer: the arguments the operations are applied to
\* ------------------------------------------------------------------------
\* what an operation of the schema layer is applied to
Given(op, arg) == [op |-> op, arg |-> arg]

NoGiven == Given("none", <<>>)

NoResult == ValidationError("")

\* the characters of "ORG:apps", "team-x", "alice" and "bob"
OrgApps == <<"O", "R", "G", ":", "a", "p", "p", "s">>
TeamX == <<"t", "e", "a", "m", "-", "x">>
Alice == <<"a", "l", "i", "c", "e">>
Bob == <<"b", "o", "b">>

\* values a caller may pass for a field of each type
ValuesOfKind(struct, f) ==
    LET kind == Declared(struct)[f].kind
    IN  CASE kind = "str" -> { PStr(<<>>), PStr(<<Space>>), PStr(<<"a", Space>>), PNone }
          [] kind = "bool" -> { PBool(TRUE), PBool(FALSE), PNone, PStr(<<"x">>) }
          [] kind = "posint" -> { PInt(0), PInt(1), PNone }
          [] kind = "literal" ->
                { PStr(l) : l \in Literals(struct, f) } \cup { PStr(<<"x">>), PNone }
          [] kind = "strlist" -> { PList(<<>>), PList(<<PStr(<<"a", Space>>)>>), PNone }
          [] OTHER -> {}

\* keyword arguments every structure accepts
RECURSIVE BaseKw(_)
BaseKw(struct) ==
    LET decl == Declared(struct)
        Base(f) ==
            CASE decl[f].kind = "struct" -> PObj(BaseKw(decl[f].of))
              [] decl[f].kind = "list" -> PList(<<PObj(BaseKw(decl[f].of))>>)
              [] decl[f].kind = "bool" -> PBool(f \in {"enabled", "includeSubjectDetail"})
              [] decl[f].kind = "literal" -> PStr(CHOOSE l \in Literals(struct, f) : TRUE)
              [] decl[f].kind = "strlist" -> PList(<<PStr(<<"n">>)>>)
              [] OTHER -> PStr(<<"a">>)
        set == { f \in DOMAIN decl : decl[f].required }
                 \cup { "subjectIdentifier", "enabled", "includeGroupDetail" }
    IN  [f \in set \cap DOMAIN decl |-> Base(f)]

\* mapping kw with field f set to v
With(kw, f, v) == [g \in DOMAIN kw \cup {f} |-> IF g = f THEN v ELSE kw[g]]

\* mapping kw without field f
Without(kw, f) == [g \in DOMAIN kw \ {f} |-> kw[g]]

\* keyword arguments that differ from the base ones in one place, at any
\* depth: an undeclared field added, a field left out, a field given
\* another value
RECURSIVE Variants(_)
Variants(struct) ==
    LET decl == Declared(struct)
        base == BaseKw(struct)
        Others(f) ==
            CASE decl[f].kind = "struct" -> { PObj(k) : k \in Variants(decl[f].of) }
              [] decl[f].kind = "list" ->
                    { PList(<<>>) }
                    \cup { PList(<<PObj(k)>>) : k \in Variants(decl[f].of) }
                    \cup { PList(<<PObj(BaseKw(decl[f].of)), PObj(k)>>) :
                             k \in Variants(decl[f].of) }
              [] OTHER -> ValuesOfKind(struct, f)
    IN  { base, With(base, "bogus", PStr(<<"x">>)) }
        \cup { Without(base, f) : f \in DOMAIN base }
        \cup UNION { { With(base, f, v) : v \in Others(f) } : f \in DOMAIN decl }

\* every way to supply the fields of a SubjectLookup, and an undeclared one
SubjectLookupKwargs ==
    UNION { [fs -> { PStr(<<>>), PStr(<<Space>>), PStr(<<"a">>), PNone }] :
              fs \in SUBSET {"subjectIdentifier", "subjectId", "bogus"} }

ConstructArgs ==
    { [struct |-> m, kw |-> k] : m \in {"SubjectLookup"}, k \in SubjectLookupKwargs }
    \cup UNION { { [struct |-> m, kw |-> k] : k \in Variants(m) } : m \in Models }

\* stems, group names and member lists callers pass to add_members_to_group
StemArgs == { OrgApps, <<"o">>, <<Space, "o">> }
GroupArgs == { TeamX, <<"g">>, <<"g", Space>>, <<Space, "g">>, <<Space>>, <<>> }
UidLists ==
    { <<>>, <<Alice, Bob>>, <<Bob, Alice>>, <<Bob, Bob>>, <<Alice>>,
      <<Alice, <<>> >>, << <<Space, "a">>, <<"b", Space>> >> }

AddMembersArgs ==
    { [stem |-> s, group_name |-> g, member_uids |-> m] :
        s \in StemArgs, g \in GroupArgs, m \in UidLists }

\* the strings extract_username is given: up to MaxStrLen characters
Alphabet == { "(", ")", "a" }
Strs == UNION { [1..n -> Alphabet] : n \in 0..MaxStrLen }

Init ==
    /\ token = NoToken
    /\ refresh_token \in {None, NA}
    /\ minted = 0
    /\ calls = 0
    /\ call = NoCall
    /\ pc = "idle"
    /\ stack = <<>>
    /\ payload = NoPayload
    /\ sendLog = <<>>
    /\ renewCount = 0
    /\ tokenAtStart = NoToken
    /\ \E sv \in ServerStates :
        /\ membership = sv[1]
        /\ groupPresent = sv[2]
    /\ ret = VNone
    /\ outcome = NoOutcome
    /\ prev = NoPrev
    /\ given = NoGiven
    /\ step = "none"
    /\ result = NoResult

Next ==
    \/ InvokeTransport
    \/ InvokeOperation
    \/ Build
    \/ EnsureToken
    \/ renew_token
    \/ CheckMethod
    \/ GetHeaders
    \/ Send
    \/ Classify
    \/ Recurse
    \/ Return
    \/ Normalize
    \/ ServerChange

Spec == Init /\ [][Next]_vars

\* ------------------------------------------------------------------------
\* Schema layer as a state machine: the arguments are drawn at the start,
\* the operations are applied to them
\* ------------------------------------------------------------------------
\* a client that has been constructed and makes no call
Idle ==
    /\ token = NoToken
    /\ refresh_token = NA
    /\ minted = 0
    /\ calls = 0
    /\ call = NoCall
    /\ pc = "idle"
    /\ stack = <<>>
    /\ payload = NoPayload
    /\ sendLog = <<>>
    /\ renewCount = 0
    /\ tokenAtStart = NoToken
    /\ membership = <<>>
    /\ groupPresent = FALSE
    /\ ret = VNone
    /\ outcome = NoOutcome
    /\ prev = NoPrev

mainVars ==
    <<token, refresh_token, minted, calls, call, pc, stack, payload, sendLog,
      renewCount, tokenAtStart, ret, outcome, prev, membership, groupPresent>>

\* Model(**kw)
ConstructModel ==
    /\ step = "given"
    /\ given.op = "construct"
    /\ result' = Construct(given.arg.struct, given.arg.kw)
    /\ step' = "constructed"
    /\ UNCHANGED <<given, mainVars>>

\* model.model_dump(exclude_unset=True) of a model that was constructed
ModelDump ==
    /\ step = "constructed"
    /\ result.ok
    /\ result' = Validated(DumpStruct(given.arg.struct, result.obj))
    /\ step' = "dumped"
    /\ UNCHANGED <<given, mainVars>>

\* add_members_to_group up to the body it hands to _send_post_request
AddMembersBody ==
    /\ step = "given"
    /\ given.op = "add_members_to_group"
    /\ result' = add_members_body(given.arg.stem, given.arg.group_name,
                                  given.arg.member_uids)
    /\ step' = "built"
    /\ UNCHANGED <<given, mainVars>>

\* GrouperClient.extract_username(subject_attributes)
ExtractUsername ==
    /\ step = "given"
    /\ given.op = "extract_username"
    /\ result' = extract_username_arg(given.arg)
    /\ step' = "extracted"
    /\ UNCHANGED <<given, mainVars>>

\* the arguments: keyword arguments of a model, the arguments of
\* add_members_to_group, or the argument of extract_username (None, or a
\* list of up to two strings)
SchemaInit ==
    /\ Idle
    /\ \/ \E a \in ConstructArgs : given = Given("construct", a)
       \/ \E a \in AddMembersArgs : given = Given("add_members_to_group", a)
       \/ \E none \in BOOLEAN : given = Given("extract_username", Attributes(none, <<>>))
       \/ \E s \in Strs : given = Given("extract_username", Attributes(FALSE, <<s>>))
       \/ \E s \in Strs, t \in Strs :
             given = Given("extract_username", Attributes(FALSE, <<s, t>>))
    /\ step = "given"
    /\ result = NoResult

SchemaNext ==
    \/ ConstructModel
    \/ ModelDump
    \/ AddMembersBody
    \/ ExtractUsername

SchemaSpec == SchemaInit /\ [][SchemaNext]_vars

\* ------------------------------------------------------------------------
\* Properties
\* ------------------------------------------------------------------------
\* the call has ended
Done == pc = "idle" /\ outcome.kind # "none"

\* the statuses the server answered the sends of the call with
SentStatuses == [i \in 1..Len(sendLog) |-> sendLog[i].r.status]

LastSent == sendLog[Len(sendLog)]

\* the last send was answered with a success status and a JSON body
ServedAtLast ==
    /\ Len(sendLog) >= 1
    /\ LastSent.r.status = 200
    /\ LastSent.r.body.json

\* the call authenticates and found no token when it began, so that the
\* ensure-token step renews
RenewsAtStart ==
    /\ tokenAtStart = NoToken
    /\ refresh_token # None
    /\ ~call.skip_auth

\* C1 (as claimed): a transport call with a renewal credential, the default
\* retry budget and a token held at its start, answered 401, 401, 200,
\* returns normally and has invoked renew_token exactly twice.
C1_Claim ==
    ( /\ Done
      /\ IsTransportCall(call)
      /\ refresh_token # None
      /\ call.retries = DefaultRetries
      /\ tokenAtStart # NoToken
      /\ SentStatuses = <<401, 401, 200>>
      /\ LastSent.r.body.json )
    => (outcome.kind = "return" /\ renewCount = 2)

\* C2 (as claimed): after three consecutive 401 answers the call has raised
\* the HTTP error 401, sent exactly three requests and invoked renew_token
\* exactly 2 times, counting the invocations made before the first send.
C2_Claim ==
    ( /\ Done
      /\ refresh_token # None
      /\ call.retries = DefaultRetries
      /\ SentStatuses = <<401, 401, 401>> )
    => ( /\ outcome = Raised("HTTPError", 401)
         /\ renewCount = 2 )

\* C2 (amended): once the third consecutive 401 has been classified, the call
\* has ended raising the HTTP error 401, exactly three requests were sent,
\* and renew_token was invoked twice after the 401 answers, plus once before
\* the first send when the call authenticates and began without a token.
C2_ThreeUnauthorized ==
    ( /\ refresh_token # None
      /\ call.retries = DefaultRetries
      /\ Len(sendLog) >= 3
      /\ \A i \in 1..3 : sendLog[i].r.status = 401
      /\ ~(Len(sendLog) = 3 /\ pc = "classify") )
    => ( /\ pc = "idle"
         /\ outcome = Raised("HTTPError", 401)
         /\ Len(sendLog) = 3
         /\ renewCount = 2 + (IF RenewsAtStart THEN 1 ELSE 0) )

C2_Witness ==
    /\ Done
    /\ refresh_token # None
    /\ SentStatuses = <<401, 401, 401>>
    /\ outcome = Raised("HTTPError", 401)
    /\ renewCount = 3

\* C3 (as claimed): when an earlier attempt was answered 401 or 403 and the
\* last attempt is answered with a success status and a JSON body, the
\* transport returns the decoded body of that last response (for DELETE
\* without a body: the mapping of its status).
C3_Claim ==
    ( /\ Done
      /\ IsTransportCall(call)
      /\ Len(sendLog) >= 2
      /\ ServedAtLast )
    => ( /\ outcome.kind = "return"
         /\ outcome.val = IF call.fn = "delete"
                          THEN VStatus(LastSent.r.status)
                          ELSE VDoc(LastSent.r.body.doc) )

\* the renew_token invocations of a call whose send number i is its last:
\* one after each earlier send, and the one of the ensure-token step
RenewalsBefore(i) == (i - 1) + (IF RenewsAtStart THEN 1 ELSE 0)

\* C4: a response with a status other than 401 and 403 that raises, or a
\* network failure, ends the call at once: the error reaches the caller, the
\* send is the last one and no renew_token invocation follows it.
C4_OnlyAuthStatusesRetry ==
    \A i \in 1..Len(sendLog) :
        LET st == sendLog[i].r.status
        IN  ( /\ st \notin {200, 401, 403}
              /\ ~(i = Len(sendLog) /\ pc = "classify") )
            => ( /\ i = Len(sendLog)
                 /\ pc = "idle"
                 /\ outcome = IF st = NetFail
                              THEN Raised("ConnectionError", 0)
                              ELSE Raised("HTTPError", st)
                 /\ renewCount = RenewalsBefore(i) )

C4_Witness ==
    /\ Done
    /\ refresh_token # None
    /\ Len(sendLog) = 1
    /\ sendLog[1].r.status = 500
    /\ outcome = Raised("HTTPError", 500)
    /\ renewCount = 0

\* C5: with a renewal credential configured, every request of an
\* authenticating call is sent while a token is held and carries a minted
\* token in its Authorization header; a call that began without a token has
\* invoked renew_token before its first send.
C5_EnsureToken ==
    (refresh_token # None /\ ~call.skip_auth)
    => ( /\ \A i \in 1..Len(sendLog) :
                /\ sendLog[i].tok # NoToken
                /\ sendLog[i].auth \in 1..minted
         /\ (pc = "send" /\ tokenAtStart = NoToken) => (renewCount >= 1 /\ token # NoToken) )

C5_Witness ==
    /\ refresh_token # None
    /\ ~call.skip_auth
    /\ tokenAtStart = NoToken
    /\ Len(sendLog) >= 1
    /\ sendLog[1].auth = 1

\* C6: the token changes only in a renew_token step, which sets it to the
\* token just minted, and a token once set never returns to empty.
C6_TokenWrittenByRenewal ==
    [][ /\ (token' # token) =>
            (pc \in {"renew_ensure", "renew_retry"} /\ token' = minted' /\ minted' = minted + 1)
        /\ (token # NoToken) => (token' # NoToken) ]_vars

C6_Witness == token = 2 /\ pc = "headers"

\* C7: a high-level operation whose envelope fails validation sends no
\* request, does not invoke renew_token and leaves the token unchanged; it
\* ends raising the validation error.
C7_ValidationBeforeNetwork ==
    (call \in OperationCalls /\ \E i \in 1..Len(call.members) : call.members[i] = "")
    => ( /\ sendLog = <<>>
         /\ renewCount = 0
         /\ token = tokenAtStart
         /\ pc \in {"build", "idle"}
         /\ pc = "idle" => outcome = Raised("ValidationError", 0) )

C7_Witness ==
    /\ Done
    /\ call.op = "get_users_by_id"
    /\ outcome = Raised("ValidationError", 0)
    /\ token # NoToken

\* C8 (as claimed): a get_group_members call that follows one for the same
\* group, with the membership unchanged, and is served after any 401/403
\* answers, returns the mapping the first call returned.
C8_Claim ==
    ( /\ Done
      /\ call.op = "get_group_members"
      /\ prev.call.op = "get_group_members"
      /\ prev.call.group = call.group
      /\ ServedAtLast
      /\ \A i \in 1..(Len(sendLog) - 1) : sendLog[i].r.status \in {401, 403} )
    => ( /\ outcome.kind = "return"
         /\ outcome.val = prev.outcome.val )

\* C9 (as claimed): user_exists returns False when the server resolves no
\* subject and True when it resolves one, and group_exists returns False when
\* the group is absent (the request being served at the first attempt).
C9_Claim ==
    ( /\ Done
      /\ Len(sendLog) = 1
      /\ ServedAtLast )
    => ( /\ call.op = "user_exists" =>
                outcome = Returned(VBool(call.members[1] \in KnownKeys))
         /\ (call.op = "group_exists" /\ ~groupPresent) =>
                outcome = Returned(VBool(FALSE)) )

\* every requested identifier is resolved by the server
AllResolved(member_ids) == \A i \in 1..Len(member_ids) : member_ids[i] \in KnownKeys

\* C10 (as claimed): get_users_by_id, its request served at the first
\* attempt, raises ValueError when fewer subjects are resolved than
\* requested, and returns the usernames, one per requested identifier,
\* exactly when every requested identifier is resolved.
C10_Claim ==
    ( /\ Done
      /\ call.op = "get_users_by_id"
      /\ Len(sendLog) = 1
      /\ ServedAtLast )
    => LET resolved == SuccessItems(LastSent.r.body.doc.items)
       IN  /\ Len(resolved) < Len(call.members) => outcome = Raised("ValueError", 0)
           /\ AllResolved(call.members) <=> outcome.kind = "return"
           /\ outcome.kind = "return" =>
                outcome.val.list =
                    [i \in 1..Len(call.members) |-> extract_username(Attrs(call.members[i]))]

\* ------------------------------------------------------------------------
\* Properties of the schema layer (checked under SchemaSpec)
\* ------------------------------------------------------------------------
\* the keyword arguments name a field the structure does not declare, at the
\* top or in a structure nested at any depth
RECURSIVE HasUnknownField(_, _)
HasUnknownField(struct, kw) ==
    LET decl == Declared(struct)
    IN  \/ DOMAIN kw \ DOMAIN decl # {}
        \/ \E f \in DOMAIN kw \cap DOMAIN decl :
              \/ /\ decl[f].kind = "struct"
                 /\ kw[f].t = "obj"
                 /\ HasUnknownField(decl[f].of, kw[f].kw)
              \/ /\ decl[f].kind = "list"
                 /\ kw[f].t = "list"
                 /\ \E i \in 1..Len(kw[f].l) :
                       /\ kw[f].l[i].t = "obj"
                       /\ HasUnknownField(decl[f].of, kw[f].l[i].kw)

\* C11 (as claimed): construction of a request envelope, or of a structure
\* nested in one, with a field name outside the declared set fails
\* validation.
C11_Claim ==
    ( /\ step = "constructed"
      /\ HasUnknownField(given.arg.struct, given.arg.kw) )
    => ~result.ok

\* the SubjectLookup fields the caller supplied with a string value
SuppliedStrings(kw) ==
    { f \in DOMAIN kw \cap {"subjectIdentifier", "subjectId"} : kw[f].t = "str" }

\* a SubjectLookup was constructed from keyword arguments that supply
\* fields only as strings
LookupConstructed ==
    /\ step = "constructed"
    /\ given.arg.struct = "SubjectLookup"
    /\ \A f \in DOMAIN given.arg.kw : given.arg.kw[f].t = "str"

\* C12 (as claimed): a SubjectLookup constructed with neither
\* subjectIdentifier nor subjectId fails validation; constructed with
\* exactly one of them supplied, whatever the string, it validates.
C12_Claim ==
    LookupConstructed
    => ( /\ SuppliedStrings(given.arg.kw) = {} => ~result.ok
         /\ Cardinality(SuppliedStrings(given.arg.kw)) = 1 => result.ok )

\* C12 (amended): a SubjectLookup constructed with neither subjectIdentifier
\* nor subjectId fails validation; constructed with exactly one of them
\* supplied, it validates if and only if the string supplied is not empty.
C12_OneNonEmptyField ==
    LookupConstructed
    => ( /\ SuppliedStrings(given.arg.kw) = {} => ~result.ok
         /\ \A f \in {"subjectIdentifier", "subjectId"} :
               SuppliedStrings(given.arg.kw) = {f}
               => (result.ok <=> Len(given.arg.kw[f].s) > 0) )

C12_Witness ==
    /\ LookupConstructed
    /\ DOMAIN given.arg.kw = {"subjectId"}
    /\ given.arg.kw["subjectId"] = PStr(<<Space>>)
    /\ result.ok

\* what the serialised form out must be for the keyword arguments kw of a
\* structure: a declared field is present exactly when the caller set it, a
\* boolean-bearing field holds the token of its value, and so at any depth
RECURSIVE TokensIn(_, _, _)
TokensIn(struct, kw, out) ==
    LET decl == Declared(struct)
    IN  /\ DOMAIN out = DOMAIN kw \cap DOMAIN decl
        /\ \A f \in DOMAIN out :
              CASE decl[f].kind = "bool" ->
                      /\ out[f] \in { PStr(<<"T">>), PStr(<<"F">>) }
                      /\ kw[f] = PBool(TRUE) => out[f] = PStr(<<"T">>)
                      /\ kw[f] = PBool(FALSE) => out[f] = PStr(<<"F">>)
                [] decl[f].kind = "struct" ->
                      /\ out[f].t = "obj"
                      /\ TokensIn(decl[f].of, kw[f].kw, out[f].kw)
                [] decl[f].kind = "list" ->
                      /\ out[f].t = "list"
                      /\ Len(out[f].l) = Len(kw[f].l)
                      /\ \A i \in 1..Len(out[f].l) :
                            /\ out[f].l[i].t = "obj"
                            /\ TokensIn(decl[f].of, kw[f].l[i].kw, out[f].l[i].kw)
                [] OTHER -> out[f].t # "bool"

\* C13: in the serialised output of every request envelope, each
\* boolean-bearing field is exactly "T" when its value is true and "F" when
\* it is false, never a native boolean, a null or another token, and a field
\* the caller did not set does not appear.
C13_BooleanTokens ==
    step = "dumped" => TokensIn(given.arg.struct, given.arg.kw, result.obj)

C13_Witness ==
    LET filter == With(BaseKw("WsQueryFilter"), "ascending", PNone)
        request == With(BaseKw("WsRestFindGroupsRequest"), "wsQueryFilter", PObj(filter))
    IN  /\ step = "dumped"
        /\ given.arg.struct = "FindGroupsRequest"
        /\ given.arg.kw = [WsRestFindGroupsRequest |-> PObj(request)]
        /\ LET req == result.obj["WsRestFindGroupsRequest"].kw
           IN  /\ req["includeGroupDetail"] = PStr(<<"F">>)
               /\ req["wsQueryFilter"].kw["enabled"] = PStr(<<"T">>)
               /\ req["wsQueryFilter"].kw["ascending"] = PStr(<<"F">>)
               /\ "pageSize" \notin DOMAIN req["wsQueryFilter"].kw

\* add_members_to_group built a body for stem s, group g and members m
BodyBuilt == step = "built" /\ result.ok

\* the parts of the body that do not depend on the group name: the single
\* top-level key, the subject lookups and replaceAllExisting
BodyFor(body, m) ==
    /\ DOMAIN body = {"WsRestAddMemberRequest"}
    /\ LET req == body["WsRestAddMemberRequest"].kw
       IN  /\ DOMAIN req = {"wsGroupLookup", "subjectLookups", "replaceAllExisting"}
           /\ DOMAIN req["wsGroupLookup"].kw = {"groupName"}
           /\ req["wsGroupLookup"].kw["groupName"].t = "str"
           /\ Len(req["subjectLookups"].l) = Len(m)
           /\ \A i \in 1..Len(m) :
                 /\ DOMAIN req["subjectLookups"].l[i].kw = {"subjectIdentifier"}
                 /\ req["subjectLookups"].l[i].kw["subjectIdentifier"] = PStr(m[i])
           /\ req["replaceAllExisting"] = PStr(<<"F">>)

GroupNameIn(body) == body["WsRestAddMemberRequest"].kw["wsGroupLookup"].kw["groupName"].s

\* x is text with the whitespace at its two ends removed
IsStripped(x, text) ==
    /\ x # <<>> => x[1] # Space /\ x[Len(x)] # Space
    /\ \E i \in 1..(Len(text) + 1) :
          /\ Len(x) <= Len(text) + 1 - i
          /\ x = SubSeq(text, i, i + Len(x) - 1)
          /\ \A j \in 1..Len(text) : (j < i \/ j >= i + Len(x)) => text[j] = Space

\* C14 (as claimed): for every stem s, group name g and member list m, the
\* body has the single key WsRestAddMemberRequest, groupName s + ":" + g,
\* one subject lookup per member, in order, with subjectIdentifier only,
\* and replaceAllExisting "F".
C14_Claim ==
    BodyBuilt
    => ( /\ BodyFor(result.obj, given.arg.member_uids)
         /\ GroupNameIn(result.obj) = given.arg.stem \o <<":">> \o given.arg.group_name )

\* C14 (amended): as claimed, except that groupName is s + ":" + g with the
\* whitespace at its two ends removed.
C14_StrippedGroupName ==
    BodyBuilt
    => ( /\ BodyFor(result.obj, given.arg.member_uids)
         /\ IsStripped(GroupNameIn(result.obj),
                       given.arg.stem \o <<":">> \o given.arg.group_name) )

C14_Witness ==
    /\ BodyBuilt
    /\ given.arg = [stem |-> OrgApps, group_name |-> TeamX, member_uids |-> <<Alice, Bob>>]
    /\ GroupNameIn(result.obj) = OrgApps \o <<":">> \o TeamX
    /\ result.obj["WsRestAddMemberRequest"].kw["subjectLookups"].l
          = << PObj([subjectIdentifier |-> PStr(Alice)]),
               PObj([subjectIdentifier |-> PStr(Bob)]) >>

\* the positions of character c in string s, and the least of a set of
\* positions
Positions(s, c) == { i \in 1..Len(s) : s[i] = c }
Least(S) == CHOOSE i \in S : \A j \in S : i <= j

\* the text of s between its first "(" and its first ")": nothing if the
\* ")" does not come after the "("
Parenthesised(s) ==
    LET open == Least(Positions(s, "("))
        close == Least(Positions(s, ")"))
    IN  [k \in 1..(IF close > open THEN close - open - 1 ELSE 0) |-> s[open + k]]

\* s has both parentheses and its parenthesised text has more than 2
\* characters
Qualifies(s) ==
    /\ Positions(s, "(") # {}
    /\ Positions(s, ")") # {}
    /\ Len(Parenthesised(s)) > 2

\* C15: extract_username returns the text between the first "(" and the
\* first ")" of the first element of the list for which that text is longer
\* than 2 characters; it returns None when the input is None, when no
\* element has both parentheses and when every parenthesised text has 2
\* characters or fewer.
C15_ExtractUsername ==
    step = "extracted"
    => IF given.arg.is_none THEN result = PyNone
       ELSE LET list == given.arg.list
                Q == { i \in 1..Len(list) : Qualifies(list[i]) }
            IN  IF Q = {} THEN result = PyNone
                ELSE result = Parenthesised(list[Least(Q)])

C15_Witness ==
    /\ step = "extracted"
    /\ ~given.arg.is_none
    /\ given.arg.list = << <<"(", "a", ")">>, <<"(", "a", "a", "a", ")">> >>
    /\ result = <<"a", "a", "a">>

\* ------------------------------------------------------------------------
\* Properties of the retry (checked under Spec)
\* ------------------------------------------------------------------------
\* C16 (as claimed): for every verb, the Authorization header of each retry
\* attempt carries the token written by the renewal just before it, never
\* the token that was just rejected.
C16_Claim ==
    ~call.skip_auth
    => \A i \in 2..Len(sendLog) :
          /\ sendLog[i].auth = sendLog[i].tok
          /\ sendLog[i].auth # sendLog[i - 1].auth

====
